---- MODULE Spec2Model ----
(***************************************************************************)
(* A model of generate_index.py: the per-entry metadata resolver           *)
(* (getPluginJson) and the batch run of main (load the previous            *)
(* plugins.json, resolve every listing entry, classify new / updated /     *)
(* removed, write plugins.json).                                           *)
(*                                                                         *)
(* Representation.                                                         *)
(*  - A Python dict is a function whose DOMAIN is the set of its keys, so  *)
(*    that `k in d` is k \in DOMAIN d.  An insertion-ordered dict that the *)
(*    code iterates (allPlugins, oldPlugins) is [keys, val].               *)
(*  - A JSON scalar of a descriptor is [t, v]: t its Python type           *)
(*    ("int", "bool", "str", "list", "dict"), v an integer (the value of   *)
(*    an int, 1/0 for a bool, the length of a str or list).  Strings are   *)
(*    told apart by their length, which is all the code inspects.          *)
(*  - A URL, a commit hash and a short URL are sequences of tokens; the    *)
(*    first tokens of a URL are its characters, so that                    *)
(*    shortUrl.find("http") == 0 is a prefix test.  None is <<>> for       *)
(*    those values, as is the empty string.                                *)
(*  - getfile(url).json() yields either [exc |-> e] (requests raised e) or *)
(*    the JSON document of the response.                                   *)
(*  - A file of the contents API is base64 of bytes; bytes are             *)
(*    [kind, value] with kind "json" (parses as JSON to value), "text"     *)
(*    (UTF-8 text value) or "binary" (neither).                            *)
(*  - An ISO-8601 time string is [epoch, fmt].                             *)
(* The listing entries of the model carry no "site" key (lines 33-39 are   *)
(* not modelled), and the README.md table (lines 330-350) and the display  *)
(* fields projectUrl, authorUrl and path are left out.                     *)
(***************************************************************************)
EXTENDS Integers, Sequences, FiniteSets, TLC

VARIABLES
    listing,         \* the manifest: json.load(open(args.listing))
    upstream,        \* hosting API: repository name -> its responses
    env,             \* URL_SHORTENER and the behaviour of that service
    pluginsFile,     \* plugins.json on disk: [exists, plugins]
    pc,              \* position of main
    run,             \* number of the current run of the program
    i,               \* index of the listing loop (1-based)
    oldPlugins,      \* full_name -> lastUpdated of the previous registry
    shortUrls,       \* packageUrl -> packageShortUrl of the previous registry
    allPlugins,      \* manifest name -> resolved record, insertion-ordered
    results,         \* per listing index: what getPluginJson returned and sent
    newPlugins, updatedPlugins, removedPlugins, newList,
    history          \* what each finished run wrote and reported

vars == <<listing, upstream, env, pluginsFile, pc, run, i, oldPlugins, shortUrls,
          allPlugins, results, newPlugins, updatedPlugins, removedPlugins,
          newList, history>>

----------------------------------------------------------------------------
(* Python values *)

NoneV == <<>>

Has(d, k) == k \in DOMAIN d

Put(d, k, v) == [x \in DOMAIN d \cup {k} |-> IF x = k THEN v ELSE d[x]]

Del(d, k) == [x \in DOMAIN d \ {k} |-> d[x]]

EmptyDict == [x \in {} |-> 0]

JInt(n) == [t |-> "int", v |-> n]
JBool(b) == [t |-> "bool", v |-> IF b THEN 1 ELSE 0]
JStr(n) == [t |-> "str", v |-> n]
JList(n) == [t |-> "list", v |-> n]
JDict(n) == [t |-> "dict", v |-> n]

\* isinstance(x, int): bool is a subclass of int
IsInstanceInt(x) == x.t \in {"int", "bool"}

IsInstanceStr(x) == x.t = "str"

\* an insertion-ordered dict
ODictEmpty == [keys |-> <<>>, val |-> EmptyDict]

ODictHas(d, k) == k \in DOMAIN d.val

ODictPut(d, k, v) ==
    [keys |-> IF ODictHas(d, k) THEN d.keys ELSE Append(d.keys, k),
     val |-> Put(d.val, k, v)]

Raised(r) == "exc" \in DOMAIN r

B64Encode(bytes) == [b64 |-> bytes]

B64Decode(content) == content.b64

\* dateutil parser.parse(s).timestamp(), truncated by int()
ParseTime(s) == s.epoch

\* datetime.fromtimestamp(n, timezone.utc).isoformat()
IsoFormat(n) == [epoch |-> n, fmt |-> "+00:00"]

StartsWith(s, p) == Len(s) >= Len(p) /\ SubSeq(s, 1, Len(p)) = p

HTTP == <<"h", "t", "t", "p">>

PLACEHOLDER_URL == <<"h", "t", "t", "p", "s", ":", "//127.0.0.1/">>

README_NAMES == <<"README.md", "README.MD", "readme.md", "README", "readme", "Readme.md">>

MIN_LONGDESC == 100

MAX_VERSION_DEFAULT == 999999

METADATA_VERSION_DEFAULT == 2

VIEW_ONLY_MIN_VERSION == 6135

----------------------------------------------------------------------------
(* getPluginJson, lines 41-248.  Each stage takes and returns a context    *)
(* c: st is "cont" while the function is still running, "None" after a     *)
(* `return None`, "raise" after an exception that leaves the function,     *)
(* and "data" after `return data`.                                         *)

ViewOnly(plugin) == Has(plugin, "view_only") /\ plugin.view_only

AutoUpdate(plugin) == Has(plugin, "auto_update") /\ plugin.auto_update

\* the path of a file of the plugin: f"{plugin['subdir']}/{file}" or file
InSubdir(plugin, file) == <<plugin.subdir, "/", file>>

AtRoot(file) == <<file>>

PluginPath(plugin, file) ==
    IF Has(plugin, "subdir") THEN InSubdir(plugin, file) ELSE AtRoot(file)

\* getfile(f"{projectUrl}/contents/{path}[?ref=...]").json()
Contents(u, path) == IF path \in DOMAIN u.contents THEN u.contents[path]
                     ELSE [message |-> "Not Found"]

Call(c, request) == [c EXCEPT !.calls = Append(@, request)]

ReturnNone(c) == [c EXCEPT !.st = "None"]

Raise(c, e) == [c EXCEPT !.st = "raise", !.exc = e]

\* `except requests.exceptions.HTTPError: return None`; anything else escapes
OnException(c, r) == IF r.exc = "HTTPError" THEN ReturnNone(c) ELSE Raise(c, r.exc)

Context0(plugin) ==
    [st |-> "cont", exc |-> "", calls |-> <<>>, plugin |-> plugin,
     releaseData |-> NoneV, commit |-> NoneV, zipUrl |-> NoneV, shortUrl |-> <<>>,
     projectData |-> NoneV, data |-> NoneV, requirements_txt |-> <<>>]

\* lines 54-86
ReleaseStage(c0, u) ==
    IF AutoUpdate(c0.plugin) THEN
        LET c == Call(c0, <<"GET", "releases/latest">>)
            r == u.latest
        IN  IF Raised(r) THEN OnException(c, r)
            ELSE IF Has(r, "message") /\ r.message \in {"Not Found", "Bad credentials"}
                 THEN ReturnNone(c)
            ELSE IF ~Has(r, "tag_name") THEN Raise(c, "KeyError")
            ELSE [c EXCEPT !.releaseData = r,
                           !.plugin = Put(c.plugin, "tag", r.tag_name)]
    ELSE IF ViewOnly(c0.plugin) THEN c0
    ELSE IF ~Has(c0.plugin, "tag") THEN Raise(c0, "KeyError")
    ELSE
        LET c == Call(c0, <<"GET", "releases/tags", c0.plugin.tag>>)
            r == u.release[c0.plugin.tag]
        IN  IF Raised(r) THEN OnException(c, r)
            ELSE IF Has(r, "message") /\ r.message = "Not Found" THEN ReturnNone(c)
            ELSE [c EXCEPT !.releaseData = r]

\* a lookup that takes the first tag of the list, whatever its name
FirstTag_Unnamed(tagData, tag) == IF Len(tagData) = 0 THEN 0 ELSE 1

\* the first tag of tagData whose name is the plugin's tag, 0 when none is
FirstTag(tagData, tag) ==
    LET m == {j \in 1..Len(tagData) : tagData[j].name = tag}
    IN  IF m = {} THEN 0 ELSE CHOOSE j \in m : \A k \in m : j <= k

\* lines 92-105
TagStage(c0, u) ==
    IF ViewOnly(c0.plugin) THEN c0
    ELSE
        LET c == Call(c0, <<"GET", "tags">>)
            r == u.tags
        IN  IF Raised(r) THEN OnException(c, r)
            ELSE IF ~Has(r, "list") THEN Raise(c, "TypeError")
            ELSE IF ~Has(c.plugin, "tag") THEN Raise(c, "KeyError")
            ELSE LET j == FirstTag(r.list, c.plugin.tag)
                 IN  IF j = 0 THEN ReturnNone(c)
                     ELSE [c EXCEPT !.commit = r.list[j].commit.sha,
                                    !.zipUrl = r.list[j].zipball_url]

\* the short URL the service issues for a long one
ShortFor(url) == <<"h", "t", "t", "p", ":", "//v35.us/">> \o Tail(url)

\* requests.post(url, json={"cdn_prefix": "v35.us", "url_long": zipUrl}), and
\* json.loads(r.text), for each behaviour of the shortening service
ShortenReply(service, zipUrl) ==
    CASE service = "ok" -> [error |-> "", url_short |-> ShortFor(zipUrl)]
      [] service = "error" -> [error |-> "quota exceeded", url_short |-> <<>>]
      [] service = "noscheme" -> [error |-> "", url_short |-> Tail(zipUrl)]
      [] OTHER -> [exc |-> "ConnectionError"]

\* lines 107-117
ShortUrlStage(c0, cache, e) ==
    IF ViewOnly(c0.plugin) THEN c0
    ELSE IF c0.zipUrl \in DOMAIN cache THEN [c0 EXCEPT !.shortUrl = cache[c0.zipUrl]]
    ELSE IF e.URL_SHORTENER THEN
        LET c == Call(c0, <<"POST", "shorten">> \o c0.zipUrl)
            r == ShortenReply(e.service, c0.zipUrl)
        IN  IF Raised(r) THEN Raise(c, r.exc)
            ELSE LET s == IF r.error = "" THEN r.url_short ELSE <<>>
                 IN  IF StartsWith(s, HTTP) THEN [c EXCEPT !.shortUrl = s]
                     ELSE Raise(c, "AssertionError")
    ELSE c0

\* lines 119-124
ProjectStage(c0, u) ==
    LET c == Call(c0, <<"GET", "repo">>)
        r == u.project
    IN  IF Raised(r) THEN OnException(c, r)
        ELSE [c EXCEPT !.projectData = r]

\* json.loads(base64.b64decode(content)), lines 141-145
JsonLoads(bytes) == IF bytes.kind = "json" THEN [ok |-> TRUE, value |-> bytes.value]
                    ELSE [ok |-> FALSE, value |-> NoneV]

\* bytes.decode('utf-8')
DecodeUtf8(bytes) == IF bytes.kind = "binary" THEN [ok |-> FALSE, value |-> NoneV]
                     ELSE [ok |-> TRUE, value |-> bytes.value]

\* lines 148-151
ReadmeCandidates(plugin) ==
    IF Has(plugin, "subdir")
    THEN [j \in 1..Len(README_NAMES) |-> InSubdir(plugin, README_NAMES[j])]
         \o [j \in 1..Len(README_NAMES) |-> AtRoot(README_NAMES[j])]
    ELSE [j \in 1..Len(README_NAMES) |-> AtRoot(README_NAMES[j])]

\* lines 152-163: the loop from candidate j on.  [found, text, calls]; any
\* exception ends the loop (`except: pass`)
RECURSIVE ReadmeScan(_, _, _, _)
ReadmeScan(u, readmes, j, sent) ==
    IF j > Len(readmes) THEN [found |-> FALSE, text |-> NoneV, calls |-> sent]
    ELSE
        LET now == Append(sent, <<"GET", "contents">> \o readmes[j])
            r == Contents(u, readmes[j])
        IN  IF Raised(r) THEN [found |-> FALSE, text |-> NoneV, calls |-> now]
            ELSE IF Has(r, "encoding") /\ Has(r, "content") /\ r.encoding = "base64"
                 THEN LET d == DecodeUtf8(B64Decode(r.content))
                      IN  IF d.ok THEN [found |-> TRUE, text |-> d.value, calls |-> now]
                          ELSE [found |-> FALSE, text |-> NoneV, calls |-> now]
            ELSE ReadmeScan(u, readmes, j + 1, now)

\* line 146
NeedsLongDescription(data) ==
    \/ Has(data, "longdescription") /\ data.longdescription.v < MIN_LONGDESC
    \/ ~Has(data, "longdescription")

\* lines 126-169
DescriptorStage(c0, u) ==
    LET path == PluginPath(c0.plugin, "plugin.json")
        c == Call(c0, <<"GET", "contents">> \o path)
        r == Contents(u, path)
    IN  IF Raised(r) THEN OnException(c, r)
        ELSE IF ~Has(r, "content") THEN Raise(c, "KeyError")
        ELSE
            LET parsed == JsonLoads(B64Decode(r.content))
            IN  IF ~parsed.ok THEN Raise(c, "JSONDecodeError")
                ELSE
                    LET data == parsed.value
                        scan == IF NeedsLongDescription(data)
                                THEN ReadmeScan(u, ReadmeCandidates(c.plugin), 1, c.calls)
                                ELSE [found |-> FALSE, text |-> NoneV, calls |-> c.calls]
                        filled == IF scan.found
                                  THEN Put(data, "longdescription", scan.text)
                                  ELSE data
                        \* lines 164-166: "Using old style json"
                        final == IF Has(filled, "plugin") THEN filled.plugin ELSE filled
                    IN  [c EXCEPT !.data = final, !.calls = scan.calls]

\* requirements_txt[1:] when it starts with the byte-order mark, then
\* replace("\r\n", "\n"); lines 182-184
StripBom(txt) == IF Len(txt) > 0 /\ txt[1] = "BOM" THEN Tail(txt) ELSE txt

NormalizeNewlines(txt) == [j \in 1..Len(txt) |-> IF txt[j] = "CRLF" THEN "LF" ELSE txt[j]]

\* lines 180-184
RequirementsText(c, req_json) ==
    IF Has(req_json, "content")
    THEN LET d == DecodeUtf8(B64Decode(req_json.content))
         IN  IF d.ok THEN [c EXCEPT !.requirements_txt = NormalizeNewlines(StripBom(d.value))]
             ELSE Raise(c, "UnicodeDecodeError")
    ELSE c

\* lines 171-186; an HTTPError leaves requirements_txt empty, any other
\* exception escapes
RequirementsStage(c0, u) ==
    IF ViewOnly(c0.plugin) THEN c0
    ELSE IF Has(c0.plugin, "subdir") THEN
        LET p1 == InSubdir(c0.plugin, "requirements.txt")
            c1 == Call(c0, <<"GET", "contents">> \o p1)
            r1 == Contents(u, p1)
        IN  IF Raised(r1) THEN (IF r1.exc = "HTTPError" THEN c1 ELSE Raise(c1, r1.exc))
            ELSE IF Has(r1, "content") THEN RequirementsText(c1, r1)
            ELSE
                LET p2 == AtRoot("requirements.txt")
                    c2 == Call(c1, <<"GET", "contents">> \o p2)
                    r2 == Contents(u, p2)
                IN  IF Raised(r2)
                    THEN (IF r2.exc = "HTTPError" THEN c2 ELSE Raise(c2, r2.exc))
                    ELSE RequirementsText(c2, r2)
    ELSE
        LET p == AtRoot("requirements.txt")
            c == Call(c0, <<"GET", "contents">> \o p)
            r == Contents(u, p)
        IN  IF Raised(r) THEN (IF r.exc = "HTTPError" THEN c ELSE Raise(c, r.exc))
            ELSE RequirementsText(c, r)

\* lines 217-218
NormalizeApi(data) ==
    IF Has(data, "api") /\ IsInstanceStr(data.api)
    THEN Put(data, "api", JList(1))
    ELSE data

\* a normalization that prefers the current key to the legacy one
NormalizeMinimumVersion_CurrentFirst(data) ==
    IF Has(data, "minimumBinaryNinjaVersion") THEN
        Del(IF ~IsInstanceInt(data.minimumBinaryNinjaVersion)
            THEN Put(data, "minimumBinaryNinjaVersion", JInt(0))
            ELSE data,
            "minimumbinaryninjaversion")
    ELSE IF Has(data, "minimumbinaryninjaversion") THEN
        Del(Put(data, "minimumBinaryNinjaVersion",
                IF ~IsInstanceInt(data.minimumbinaryninjaversion) THEN JInt(0)
                ELSE data.minimumbinaryninjaversion),
            "minimumbinaryninjaversion")
    ELSE Put(data, "minimumBinaryNinjaVersion", JInt(0))

\* lines 220-230
NormalizeMinimumVersion(data) ==
    IF Has(data, "minimumbinaryninjaversion") THEN
        Del(Put(data, "minimumBinaryNinjaVersion",
                IF ~IsInstanceInt(data.minimumbinaryninjaversion) THEN JInt(0)
                ELSE data.minimumbinaryninjaversion),
            "minimumbinaryninjaversion")
    ELSE IF Has(data, "minimumBinaryNinjaVersion") THEN
        (IF ~IsInstanceInt(data.minimumBinaryNinjaVersion)
         THEN Put(data, "minimumBinaryNinjaVersion", JInt(0))
         ELSE data)
    ELSE Put(data, "minimumBinaryNinjaVersion", JInt(0))

\* lines 232-242
ApplyDefaults(data, plugin) ==
    LET d1 == IF ~Has(data, "pluginmetadataversion")
              THEN Put(data, "pluginmetadataversion", JInt(METADATA_VERSION_DEFAULT))
              ELSE data
        d2 == IF ~Has(d1, "maximumBinaryNinjaVersion")
                 \/ ~IsInstanceInt(d1.maximumBinaryNinjaVersion)
              THEN Put(d1, "maximumBinaryNinjaVersion", JInt(MAX_VERSION_DEFAULT))
              ELSE d1
        d3 == IF ~Has(d2, "platforms") THEN Put(d2, "platforms", JList(0)) ELSE d2
        d4 == IF ~Has(d3, "installinstructions")
              THEN Put(d3, "installinstructions", JDict(0))
              ELSE d3
    IN  IF Has(plugin, "subdir") THEN Put(d4, "subdir", plugin.subdir) ELSE d4

\* a resolver without the floor of view_only entries
ViewOnlyFloor_Missing(data, view_only) == data

\* lines 243-245: "Native plugins require this version to not produce error logs."
ViewOnlyFloor(data, view_only) ==
    IF view_only /\ data.minimumBinaryNinjaVersion.v < VIEW_ONLY_MIN_VERSION
    THEN Put(data, "minimumBinaryNinjaVersion", JInt(VIEW_ONLY_MIN_VERSION))
    ELSE data

\* lines 193-212, once lastUpdated is known
InternalFields(c, lastUpdated) ==
    LET view_only == ViewOnly(c.plugin)
        d1 == Put(c.data, "lastUpdated", lastUpdated)
        d2 == Put(d1, "projectData", Put(c.projectData, "updated_at", IsoFormat(lastUpdated)))
        d3 == Put(d2, "packageUrl", IF view_only THEN PLACEHOLDER_URL ELSE c.zipUrl)
        d4 == Put(d3, "packageShortUrl", IF view_only THEN PLACEHOLDER_URL ELSE c.shortUrl)
        d5 == Put(d4, "view_only", view_only)
        d6 == Put(d5, "dependencies", c.requirements_txt)
    IN  Put(d6, "commit", c.commit)

\* lines 188-248
FinalStage(c) ==
    LET view_only == ViewOnly(c.plugin)
        source == IF view_only THEN c.projectData ELSE c.releaseData
        field == IF view_only THEN "updated_at" ELSE "published_at"
    IN  IF ~Has(source, field) THEN Raise(c, "KeyError")
        \* line 211: projectData["full_name"]
        ELSE IF ~Has(c.projectData, "full_name") THEN Raise(c, "KeyError")
        ELSE
            LET d1 == InternalFields(c, ParseTime(source[field]))
                d2 == NormalizeMinimumVersion(NormalizeApi(d1))
                d3 == ViewOnlyFloor(ApplyDefaults(d2, c.plugin), view_only)
            IN  [c EXCEPT !.st = "data", !.data = d3]

Then(c, stage(_)) == IF c.st = "cont" THEN stage(c) ELSE c

\* getPluginJson(plugin, shortUrls): [st, data, calls, exc, ...] under the
\* responses u of the plugin's repository and the environment e
getPluginJson(plugin, cache, u, e) ==
    LET s1(c) == ReleaseStage(c, u)
        s2(c) == TagStage(c, u)
        s3(c) == ShortUrlStage(c, cache, e)
        s4(c) == ProjectStage(c, u)
        s5(c) == DescriptorStage(c, u)
        s6(c) == RequirementsStage(c, u)
    IN  Then(Then(Then(Then(Then(Then(s1(Context0(plugin)), s2), s3), s4), s5), s6),
             FinalStage)

----------------------------------------------------------------------------
(* The inputs: listing entries, the responses of the hosting API, the      *)
(* shortening service, the previous plugins.json.                          *)

MaxListing == 2

MaxRuns == 2

MaxTime == 3

Times == 1..MaxTime

\* the repository every name resolves to: the hosting API matches owner and
\* name case-insensitively and answers with the canonical full_name
Canonical(name) == IF name = "A/x" THEN "a/x" ELSE name

GitHubTime(n) == [epoch |-> n, fmt |-> "Z"]

ZipUrl(repo, tag) == <<"h", "t", "t", "p", "s", ":", "//api/zipball/", repo, tag>>

Sha(repo, tag) == <<"sha", repo, tag>>

TagEntry(repo, tag) ==
    [name |-> tag, commit |-> [sha |-> Sha(repo, tag)], zipball_url |-> ZipUrl(repo, tag)]

TagList(repo, tags) == [list |-> [j \in 1..Len(tags) |-> TagEntry(repo, tags[j])]]

NotFound == [message |-> "Not Found"]

BadCredentials == [message |-> "Bad credentials"]

Exc(e) == [exc |-> e]

File(bytes) == [encoding |-> "base64", content |-> B64Encode(bytes)]

Text(n) == [kind |-> "text", value |-> JStr(n)]

Release(tag, n) == [tag_name |-> tag, published_at |-> GitHubTime(n)]

Project(repo, n) == [full_name |-> repo, updated_at |-> GitHubTime(n)]

Absent == [t |-> "absent", v |-> 0]

Opt(d, k, v) == IF v = Absent THEN d ELSE Put(d, k, v)

\* a plugin.json: its long description and its two minimum-version keys
Descriptor(longdescription, legacy, current) ==
    Opt(Opt(Opt([name |-> JStr(6), api |-> JStr(7), description |-> JStr(20)],
                "longdescription", longdescription),
            "minimumbinaryninjaversion", legacy),
        "minimumBinaryNinjaVersion", current)

\* the old style: the descriptor under the key "plugin"
Enveloped(descriptor) == [plugin |-> descriptor]

PluginJson(descriptor) == File([kind |-> "json", value |-> descriptor])

DefaultDescriptor == Descriptor(JStr(250), Absent, Absent)

\* plugin.json, served at the root and in the subdirectory "s"
AtBoth(file, response) ==
    (AtRoot(file) :> response) @@ (<<"s", "/", file>> :> response)

\* the responses of one repository
Upstream(latest, release, tags, project, pluginjson, readmes, requirements) ==
    [latest |-> latest,
     release |-> [t \in {"v1", "v2"} |-> release],
     tags |-> tags,
     project |-> project,
     contents |-> AtBoth("plugin.json", pluginjson) @@ readmes @@ requirements]

NoFiles == [x \in {} |-> NotFound]

RequirementsTxt == [kind |-> "text", value |-> <<"BOM", "numpy", "CRLF", "scipy", "LF">>]

\* a healthy repository: release v1 published (and the repository updated)
\* at n; the tag list is v2, v1
Healthy(repo, n, pluginjson, readmes, requirements) ==
    Upstream(Release("v1", n), Release("v1", n), TagList(repo, <<"v2", "v1">>),
             Project(repo, n), pluginjson, readmes, requirements)

Baseline(repo, n) ==
    Healthy(repo, n, PluginJson(DefaultDescriptor), NoFiles,
            AtRoot("requirements.txt") :> File(RequirementsTxt))

\* the repositories of a run: healthy at some time, or with one failing call
RunScenarios ==
    {[fails |-> "nothing", at |-> n] : n \in Times}
    \cup {[fails |-> f, at |-> 1] : f \in {"tags", "plugin.json"}}

RunUpstream(name, scenario) ==
    LET repo == Canonical(name)
        b == Baseline(repo, scenario.at)
    IN  CASE scenario.fails = "tags" -> [b EXCEPT !.tags = TagList(repo, <<"v2">>)]
          [] scenario.fails = "plugin.json" ->
                [b EXCEPT !.contents =
                     AtBoth("plugin.json", File([kind |-> "text", value |-> JStr(9)])) @@ @]
          [] OTHER -> b

Pinned(name) == [name |-> name, tag |-> "v1"]

ViewOnlyEntry(name) == [name |-> name, view_only |-> TRUE]

RunEntries ==
    {Pinned("a/x"), Put(Pinned("a/x"), "subdir", "s"), Pinned("A/x"), ViewOnlyEntry("b/y")}

Listings(entries, n) == UNION {[1..k -> entries] : k \in 0..n}

NamesOf(l) == {l[j].name : j \in 1..Len(l)}

\* a record of an earlier run, as far as main reads it again
PreviousRecord(repo, n, packageUrl, packageShortUrl) ==
    [lastUpdated |-> n, projectData |-> Project(repo, n),
     packageUrl |-> packageUrl, packageShortUrl |-> packageShortUrl]

OldShortUrl == <<"h", "t", "t", "p", ":", "//v35.us/", "old">>

\* no plugins.json yet, or the one of a run that resolved a/x with a short
\* URL and b/y, then not view_only, without one
PreviousFiles ==
    {[exists |-> FALSE, plugins |-> <<>>],
     [exists |-> TRUE,
      plugins |-> <<PreviousRecord("a/x", 2, ZipUrl("a/x", "v1"), OldShortUrl),
                    PreviousRecord("b/y", 2, ZipUrl("b/y", "v1"), <<>>)>>]}

Environments ==
    {[URL_SHORTENER |-> FALSE, service |-> "none"],
     [URL_SHORTENER |-> TRUE, service |-> "ok"]}

InitMain ==
    /\ pc = "start"
    /\ run = 1
    /\ i = 1
    /\ oldPlugins = ODictEmpty
    /\ shortUrls = EmptyDict
    /\ allPlugins = ODictEmpty
    /\ results = <<>>
    /\ newPlugins = <<>>
    /\ updatedPlugins = <<>>
    /\ removedPlugins = <<>>
    /\ newList = <<>>
    /\ history = <<>>

\* a run over a listing of at most MaxListing entries, and the repositories
\* it names
Init ==
    /\ listing \in Listings(RunEntries, MaxListing)
    /\ \E scenario \in [NamesOf(listing) -> RunScenarios] :
           upstream = [n \in NamesOf(listing) |-> RunUpstream(n, scenario[n])]
    /\ env \in Environments
    /\ pluginsFile \in PreviousFiles
    /\ InitMain

----------------------------------------------------------------------------
(* The inputs of the resolver: one listing entry of every shape, against a *)
(* repository that deviates from the healthy one in one respect.           *)

With(d, k, v, present) == IF present THEN Put(d, k, v) ELSE d

ResolverEntries ==
    {With(With(With(With([name |-> "a/x"], "tag", "v1", tag), "subdir", "s", subdir),
               "view_only", TRUE, view_only), "auto_update", TRUE, auto_update) :
        tag \in BOOLEAN, subdir \in BOOLEAN, view_only \in BOOLEAN, auto_update \in BOOLEAN}

LongDescriptions == {Absent, JStr(12), JStr(99), JStr(100), JStr(250)}

LegacyVersions == {Absent, JInt(100), JInt(7000), JStr(4), JBool(TRUE)}

CurrentVersions == {Absent, JInt(200), JInt(6500), JStr(4)}

Descriptors ==
    {Descriptor(ld, Absent, Absent) : ld \in LongDescriptions}
    \cup {Descriptor(JStr(250), legacy, current) :
             legacy \in LegacyVersions, current \in CurrentVersions}

PluginJsons ==
    {PluginJson(d) : d \in Descriptors} \cup {PluginJson(Enveloped(d)) : d \in Descriptors}

\* which README files the repository has
ReadmeMaps ==
    {NoFiles,
     AtRoot("README.md") :> File(Text(300)),
     (<<"s", "/", "README.md">> :> File(Text(400))) @@ (AtRoot("README.md") :> File(Text(300))),
     (AtRoot("readme") :> File(Text(300))) @@ (AtRoot("Readme.md") :> File(Text(500))),
     (AtRoot("README.md") :> [encoding |-> "none", content |-> B64Encode(Text(0))])
         @@ (AtRoot("README.MD") :> File(Text(300))),
     (AtRoot("README.md") :> Exc("ConnectionError")) @@ (AtRoot("README.MD") :> File(Text(300)))}

RequirementsMaps ==
    {NoFiles,
     (<<"s", "/", "requirements.txt">> :> File(RequirementsTxt))
         @@ (AtRoot("requirements.txt") :> File([kind |-> "text", value |-> <<"flask", "LF">>])),
     AtRoot("requirements.txt") :> File([kind |-> "binary", value |-> NoneV]),
     AtRoot("requirements.txt") :> Exc("ConnectionError"),
     (<<"s", "/", "requirements.txt">> :> Exc("HTTPError"))
         @@ (AtRoot("requirements.txt") :> Exc("HTTPError"))}

RateLimited == [message |-> "API rate limit exceeded"]

LatestResponses ==
    {Release("v2", 2), NotFound, BadCredentials, RateLimited,
     Exc("HTTPError"), Exc("ConnectionError")}

ReleaseResponses ==
    {NotFound, BadCredentials, Exc("HTTPError"), Exc("ConnectionError")}

TagsResponses ==
    {TagList("a/x", tags) : tags \in {<<"v1", "v2">>, <<"v1">>, <<"v2">>, <<>>}}
    \cup {RateLimited, Exc("HTTPError"), Exc("ConnectionError")}

ProjectResponses == {NotFound, Exc("HTTPError"), Exc("ConnectionError")}

PluginJsonFailures ==
    {NotFound, File(Text(9)), Exc("HTTPError"), Exc("ConnectionError")}

ResolverUpstreams ==
    LET b == Baseline("a/x", 2)
        rq == AtRoot("requirements.txt") :> File(RequirementsTxt)
    IN  {Healthy("a/x", 2, pj, rm, rq) : pj \in PluginJsons, rm \in ReadmeMaps}
        \cup {Healthy("a/x", 2, pj, NoFiles, rq) : pj \in PluginJsonFailures}
        \cup {Healthy("a/x", 2, PluginJson(DefaultDescriptor), NoFiles, r) :
                 r \in RequirementsMaps}
        \cup {[b EXCEPT !.latest = r] : r \in LatestResponses}
        \cup {[b EXCEPT !.latest = Release("v2", 2), !.tags = r] : r \in TagsResponses}
        \cup {[b EXCEPT !.release = [t \in {"v1", "v2"} |-> r]] : r \in ReleaseResponses}
        \cup {[b EXCEPT !.tags = r] : r \in TagsResponses}
        \cup {[b EXCEPT !.project = r] : r \in ProjectResponses}

CachedFile ==
    [exists |-> TRUE,
     plugins |-> <<PreviousRecord("a/x", 1, ZipUrl("a/x", "v1"), OldShortUrl)>>]

ResolverEnvironments ==
    Environments \cup {[URL_SHORTENER |-> TRUE, service |-> "error"],
                       [URL_SHORTENER |-> TRUE, service |-> "noscheme"],
                       [URL_SHORTENER |-> TRUE, service |-> "down"]}

\* the repository, the environment and the previous plugins.json: at most
\* one of them is not the default
ResolverWorlds ==
    LET e0 == [URL_SHORTENER |-> FALSE, service |-> "none"]
        f0 == [exists |-> FALSE, plugins |-> <<>>]
    IN  {[upstream |-> u, env |-> e0, pluginsFile |-> f0] : u \in ResolverUpstreams}
        \cup {[upstream |-> Baseline("a/x", 2), env |-> e, pluginsFile |-> f] :
                 e \in ResolverEnvironments, f \in {f0, CachedFile}}

\* getPluginJson on one entry
InitResolver ==
    /\ listing \in Listings(ResolverEntries, 1)
    /\ \E w \in ResolverWorlds :
        /\ upstream = [n \in NamesOf(listing) |-> w.upstream]
        /\ env = w.env
        /\ pluginsFile = w.pluginsFile
    /\ InitMain

----------------------------------------------------------------------------
(* main, lines 265-328 *)

\* lines 269-275: one record of the previous plugins.json
LoadRecord(acc, plugin) ==
    [shortUrls |-> IF Has(plugin, "packageShortUrl") /\ Len(plugin.packageShortUrl) > 0
                   THEN Put(acc.shortUrls, plugin.packageUrl, plugin.packageShortUrl)
                   ELSE acc.shortUrls,
     oldPlugins |-> ODictPut(acc.oldPlugins, plugin.projectData.full_name,
                             plugin.lastUpdated)]

\* lines 267-275: the loop over the first n records of the file
RECURSIVE LoadPrevious(_, _)
LoadPrevious(plugins, n) ==
    IF n = 0 THEN [shortUrls |-> EmptyDict, oldPlugins |-> ODictEmpty]
    ELSE LoadRecord(LoadPrevious(plugins, n - 1), plugins[n])

\* lines 293-301
PluginIsNew(old, name) == ~ODictHas(old, name)

\* a comparison that also reports an unchanged lastUpdated
PluginIsUpdated_NotStrict(old, name, pluginData) ==
    ODictHas(old, name) /\ pluginData.lastUpdated >= old.val[name]

PluginIsUpdated(old, name, pluginData) ==
    ODictHas(old, name) /\ pluginData.lastUpdated > old.val[name]

\* lines 290-307: the names appended to newPlugins, to updatedPlugins
NewPlugins(all, old) ==
    LET isNew(name) == PluginIsNew(old, name) IN SelectSeq(all.keys, isNew)

UpdatedPlugins(all, old) ==
    LET isUpdated(name) == ~PluginIsNew(old, name)
                           /\ PluginIsUpdated(old, name, all.val[name])
    IN  SelectSeq(all.keys, isUpdated)

\* line 292
NewList(all) == all.keys

\* lines 308-310
RemovedPlugins(old, names) ==
    LET gone(name) == \A j \in 1..Len(names) : names[j] # name
    IN  SelectSeq(old.keys, gone)

\* lines 313-315
AllPluginsList(all) == [j \in 1..Len(all.keys) |-> all.val[all.keys[j]]]

\* lines 265-278: a run starts
Start ==
    /\ pc = "start"
    /\ LET prev == IF pluginsFile.exists
                   THEN LoadPrevious(pluginsFile.plugins, Len(pluginsFile.plugins))
                   ELSE LoadPrevious(<<>>, 0)
       IN  /\ oldPlugins' = prev.oldPlugins
           /\ shortUrls' = prev.shortUrls
    /\ allPlugins' = ODictEmpty
    /\ i' = 1
    /\ results' = <<>>
    /\ newPlugins' = <<>>
    /\ updatedPlugins' = <<>>
    /\ removedPlugins' = <<>>
    /\ newList' = <<>>
    /\ pc' = "collect"
    /\ UNCHANGED <<listing, upstream, env, pluginsFile, run, history>>

\* what is kept of a call of getPluginJson: how it ended, the record, the
\* requests it sent and the artifact URL it found
Returned(c) == [st |-> c.st, exc |-> c.exc, data |-> c.data, calls |-> c.calls,
                zipUrl |-> c.zipUrl]

Resolve(plugin) == getPluginJson(plugin, shortUrls, upstream[plugin.name], env)

\* lines 279-283: one iteration of the loop whose getPluginJson returns
Collect ==
    /\ pc = "collect"
    /\ i <= Len(listing)
    /\ LET jsonData == Resolve(listing[i])
       IN  /\ jsonData.st # "raise"
           /\ allPlugins' = IF jsonData.st = "data"
                            THEN ODictPut(allPlugins, listing[i].name, jsonData.data)
                            ELSE allPlugins
           /\ results' = Append(results, Returned(jsonData))
    /\ i' = i + 1
    /\ UNCHANGED <<listing, upstream, env, pluginsFile, pc, run, oldPlugins, shortUrls,
                   newPlugins, updatedPlugins, removedPlugins, newList, history>>

\* lines 279-283: one iteration whose getPluginJson raises; nothing in main
\* catches it, the interpreter ends with a traceback
Crash ==
    /\ pc = "collect"
    /\ i <= Len(listing)
    /\ LET jsonData == Resolve(listing[i])
       IN  /\ jsonData.st = "raise"
           /\ results' = Append(results, jsonData)
    /\ pc' = "crashed"
    /\ UNCHANGED <<listing, upstream, env, pluginsFile, run, i, oldPlugins, shortUrls,
                   allPlugins, newPlugins, updatedPlugins, removedPlugins, newList,
                   history>>

\* lines 284-310
Diff ==
    /\ pc = "collect"
    /\ i > Len(listing)
    /\ newPlugins' = NewPlugins(allPlugins, oldPlugins)
    /\ updatedPlugins' = UpdatedPlugins(allPlugins, oldPlugins)
    /\ newList' = NewList(allPlugins)
    /\ removedPlugins' = RemovedPlugins(oldPlugins, NewList(allPlugins))
    /\ pc' = "write"
    /\ UNCHANGED <<listing, upstream, env, pluginsFile, run, i, oldPlugins, shortUrls,
                   allPlugins, results, history>>

\* lines 312-328
Write ==
    /\ pc = "write"
    /\ pluginsFile' = [exists |-> TRUE, plugins |-> AllPluginsList(allPlugins)]
    /\ history' = Append(history, [registry |-> AllPluginsList(allPlugins),
                                   newPlugins |-> newPlugins,
                                   updatedPlugins |-> updatedPlugins,
                                   removedPlugins |-> removedPlugins])
    /\ pc' = "done"
    /\ UNCHANGED <<listing, upstream, env, run, i, oldPlugins, shortUrls, allPlugins,
                   results, newPlugins, updatedPlugins, removedPlugins, newList>>

\* the program is run again, on the same listing and the plugins.json it wrote
Rerun ==
    /\ pc = "done"
    /\ run < MaxRuns
    /\ run' = run + 1
    /\ pc' = "start"
    /\ UNCHANGED <<listing, upstream, env, pluginsFile, i, oldPlugins, shortUrls,
                   allPlugins, results, newPlugins, updatedPlugins, removedPlugins,
                   newList, history>>

Next == Start \/ Collect \/ Crash \/ Diff \/ Write \/ Rerun

Spec == Init /\ [][Next]_vars

SpecResolver == InitResolver /\ [][Next]_vars

----------------------------------------------------------------------------
(* Properties *)

Finished == pc \in {"write", "done"}

Resolved(j) == results[j].st = "data"

Record(j) == results[j].data

Repo(j) == upstream[listing[j].name]

Sent(j, request) == \E k \in 1..Len(results[j].calls) : results[j].calls[k] = request

Posted(j, url) == Sent(j, <<"POST", "shorten">> \o url)

PostedAny(j) ==
    \E k \in 1..Len(results[j].calls) : StartsWith(results[j].calls[k], <<"POST">>)

Count(seq, x) == Cardinality({k \in 1..Len(seq) : seq[k] = x})

Elements(seq) == {seq[k] : k \in 1..Len(seq)}

FullNames(plugins) == [k \in 1..Len(plugins) |-> plugins[k].projectData.full_name]

\* C1: when the resolution of an entry fails (its getPluginJson produces no
\* record, whether by returning None or by raising), the run does not abort:
\* the later entries are resolved, the entry has no record, and a run that
\* has left the loop has resolved every entry of the listing.
C1_FailureIsolation ==
    /\ pc # "crashed"
    /\ \A j \in 1..Len(results) :
          ~Resolved(j) /\ (\A k \in 1..Len(results) : listing[k].name = listing[j].name => k = j)
              => ~ODictHas(allPlugins, listing[j].name)
    /\ Finished => Len(results) = Len(listing)

\* C2: a second run on the same listing, the same responses and the first
\* run's plugins.json writes the same plugins.json and reports no new, no
\* updated and no removed plugin.
C2_Idempotent ==
    Len(history) >= 2 =>
        /\ history[2].newPlugins = <<>>
        /\ history[2].updatedPlugins = <<>>
        /\ history[2].removedPlugins = <<>>
        /\ history[2].registry = history[1].registry

\* the part of C2 that the code keeps: the second run writes the same file
C2_SameRegistry == Len(history) >= 2 => history[2].registry = history[1].registry

\* C3: a resolved entry is reported new exactly when its key is not a key of
\* the previous registry, updated exactly when its key is one and its
\* lastUpdated is strictly greater than the previous one; the three lists
\* are pairwise disjoint.
C3_DiffClassification ==
    Finished =>
        /\ \A name \in DOMAIN allPlugins.val :
              /\ name \in Elements(newPlugins) <=> name \notin DOMAIN oldPlugins.val
              /\ name \in Elements(updatedPlugins) <=>
                    /\ name \in DOMAIN oldPlugins.val
                    /\ allPlugins.val[name].lastUpdated > oldPlugins.val[name]
        /\ Elements(newPlugins) \cup Elements(updatedPlugins) \subseteq DOMAIN allPlugins.val
        /\ Elements(newPlugins) \cap Elements(updatedPlugins) = {}
        /\ Elements(newPlugins) \cap Elements(removedPlugins) = {}
        /\ Elements(updatedPlugins) \cap Elements(removedPlugins) = {}

\* a run that reports one plugin updated and leaves another, whose
\* lastUpdated did not change, out of both lists
C3_Witness ==
    /\ pc = "done"
    /\ Len(updatedPlugins) = 1
    /\ \E name \in DOMAIN allPlugins.val :
          /\ name \in DOMAIN oldPlugins.val
          /\ allPlugins.val[name].lastUpdated = oldPlugins.val[name]
          /\ name \notin Elements(newPlugins) \cup Elements(updatedPlugins)

\* C4: a plugin of the previous registry (a full_name) that is not a key of
\* the newly resolved set is once in the removed list and has no record in
\* the plugins.json the run writes.
C4_RemovalReporting ==
    pc = "done" =>
        \A name \in DOMAIN oldPlugins.val :
            name \notin DOMAIN allPlugins.val =>
                /\ Count(removedPlugins, name) = 1
                /\ name \notin Elements(FullNames(pluginsFile.plugins))

\* the part of C4 that the code keeps: the removed list holds, once each,
\* the previous keys that are not keys of the resolved set
C4_RemovedKeys ==
    Finished =>
        /\ Elements(removedPlugins) = DOMAIN oldPlugins.val \ DOMAIN allPlugins.val
        /\ \A name \in Elements(removedPlugins) : Count(removedPlugins, name) = 1

\* C5: no two records of the written plugins.json have the same full_name.
C5_UniqueFullName ==
    pc = "done" =>
        \A j, k \in 1..Len(pluginsFile.plugins) :
            pluginsFile.plugins[j].projectData.full_name
                = pluginsFile.plugins[k].projectData.full_name => j = k

\* C10: the cache holds the packageUrl -> packageShortUrl pairs of the
\* previous records with a non-empty packageShortUrl
C10_Seeding ==
    pc = "collect" =>
        /\ DOMAIN shortUrls =
              {r.packageUrl : r \in {q \in Elements(pluginsFile.plugins) :
                                         Len(q.packageShortUrl) > 0}}
        /\ \A r \in Elements(pluginsFile.plugins) :
              Len(r.packageShortUrl) > 0 => shortUrls[r.packageUrl] = r.packageShortUrl

\* C10: an entry whose artifact URL is cached gets the cached short URL and
\* sends no request; a request is sent only for an uncached URL with the
\* endpoint configured; uncached and not configured leaves it empty
C10_PerEntry ==
    \A j \in 1..Len(results) :
        LET zip == results[j].zipUrl
        IN  ~ViewOnly(listing[j]) /\ zip # NoneV =>
                /\ zip \in DOMAIN shortUrls =>
                      /\ ~PostedAny(j)
                      /\ Resolved(j) => Record(j).packageShortUrl = shortUrls[zip]
                /\ PostedAny(j) =>
                      Posted(j, zip) /\ zip \notin DOMAIN shortUrls /\ env.URL_SHORTENER
                /\ zip \notin DOMAIN shortUrls /\ ~env.URL_SHORTENER /\ Resolved(j) =>
                      Record(j).packageShortUrl = <<>>

\* C10: over a run, no request is sent for an artifact URL that already has
\* a short URL: one of the cache, or one issued earlier in the run
C10_NoRedundantRequest ==
    \A j \in 1..Len(results) :
        LET zip == results[j].zipUrl
        IN  Posted(j, zip) =>
                /\ zip \notin DOMAIN shortUrls
                /\ \A k \in 1..(j - 1) : ~Posted(k, zip)

\* C10: short URLs are deduplicated
C10_ShortUrlDeduplication == C10_Seeding /\ C10_PerEntry /\ C10_NoRedundantRequest

\* the plugin.json the repository serves for entry j, and the descriptor in
\* it: the value of "plugin" when it is of the old style
ServedJson(j) == B64Decode(Contents(Repo(j), PluginPath(listing[j], "plugin.json")).content).value

ServedDescriptor(j) ==
    IF Has(ServedJson(j), "plugin") THEN ServedJson(j).plugin ELSE ServedJson(j)

\* C6: the record of a view_only entry has no commit, the placeholder
\* packageUrl and packageShortUrl, was resolved without a request for the
\* tag list or to the shortening service, and has a minimumBinaryNinjaVersion
\* of at least 6135.
C6_ViewOnlyRecords ==
    \A j \in 1..Len(results) :
        ViewOnly(listing[j]) /\ Resolved(j) =>
            /\ Record(j).commit = NoneV
            /\ Record(j).packageUrl = PLACEHOLDER_URL
            /\ Record(j).packageShortUrl = PLACEHOLDER_URL
            /\ ~Sent(j, <<"GET", "tags">>)
            /\ ~PostedAny(j)
            /\ Record(j).minimumBinaryNinjaVersion.v >= 6135

\* a view_only entry with auto_update and subdir whose descriptor declares a
\* version below 6135, resolved
C6_Witness ==
    \E j \in 1..Len(results) :
        /\ ViewOnly(listing[j]) /\ AutoUpdate(listing[j]) /\ Has(listing[j], "subdir")
        /\ Resolved(j)
        /\ Has(ServedDescriptor(j), "minimumbinaryninjaversion")
        /\ ServedDescriptor(j).minimumbinaryninjaversion = JInt(100)
        /\ Record(j).minimumBinaryNinjaVersion = JInt(6135)

C7_Unfloored(d) ==
    IF Has(d, "minimumbinaryninjaversion")
    THEN (IF d.minimumbinaryninjaversion.t \in {"int", "bool"}
          THEN d.minimumbinaryninjaversion
          ELSE JInt(0))
    ELSE JInt(0)

ServedReadmes(j) ==
    LET candidates == ReadmeCandidates(listing[j])
        served(path) == LET r == Contents(Repo(j), path)
                        IN  Has(r, "encoding") /\ Has(r, "content") /\ r.encoding = "base64"
    IN  SelectSeq(candidates, served)

\* C8: when the descriptor (flat or under "plugin") has no long description
\* or one shorter than 100, the record's longdescription is the decoded
\* content of the first candidate README served base64-encoded; when there
\* is none, it is the descriptor's own.
C8_LongDescriptionBackfill ==
    \A j \in 1..Len(results) :
        Resolved(j) =>
            LET d == ServedDescriptor(j)
                readmes == ServedReadmes(j)
            IN  ~Has(d, "longdescription") \/ d.longdescription.v < 100 =>
                    IF readmes # <<>>
                    THEN /\ Has(Record(j), "longdescription")
                         /\ Record(j).longdescription
                                = B64Decode(Contents(Repo(j), readmes[1]).content).value
                    ELSE /\ Has(Record(j), "longdescription") <=> Has(d, "longdescription")
                         /\ Has(d, "longdescription")
                                => Record(j).longdescription = d.longdescription

\* the part of C8 that the code keeps: a flat descriptor, and every request
\* up to the first README served base64-encoded answered
C8_FlatDescriptor ==
    \A j \in 1..Len(results) :
        Resolved(j) /\ ~Has(ServedJson(j), "plugin")
        /\ (\A path \in Elements(ReadmeCandidates(listing[j])) :
                ~Raised(Contents(Repo(j), path)))
            => LET d == ServedDescriptor(j)
                   readmes == ServedReadmes(j)
               IN  ~Has(d, "longdescription") \/ d.longdescription.v < 100 =>
                       IF readmes # <<>>
                       THEN /\ Has(Record(j), "longdescription")
                            /\ Record(j).longdescription
                                   = B64Decode(Contents(Repo(j), readmes[1]).content).value
                       ELSE /\ Has(Record(j), "longdescription") <=> Has(d, "longdescription")
                            /\ Has(d, "longdescription")
                                   => Record(j).longdescription = d.longdescription

\* C9: the record of an entry with neither auto_update nor view_only has the
\* commit hash and the zip URL of the entry of the tag list named as the
\* entry's tag; when the tag list has no such entry, there is no record.
C9_PinnedCommit ==
    \A j \in 1..Len(results) :
        ~AutoUpdate(listing[j]) /\ ~ViewOnly(listing[j]) =>
            LET tags == Repo(j).tags
                named == IF Has(tags, "list") /\ Has(listing[j], "tag")
                         THEN {k \in 1..Len(tags.list) : tags.list[k].name = listing[j].tag}
                         ELSE {}
            IN  /\ Resolved(j) =>
                      \E k \in named :
                          /\ Record(j).commit = tags.list[k].commit.sha
                          /\ Record(j).packageUrl = tags.list[k].zipball_url
                /\ named = {} => ~Resolved(j) /\ ~ODictHas(allPlugins, listing[j].name)

\* a pinned entry resolved to a tag that is not the first of the tag list
C9_Witness ==
    \E j \in 1..Len(results) :
        /\ ~AutoUpdate(listing[j]) /\ ~ViewOnly(listing[j])
        /\ Resolved(j)
        /\ Len(Repo(j).tags.list) = 2
        /\ Repo(j).tags.list[1].name # listing[j].tag
        /\ Record(j).commit = Sha("a/x", "v1")

====
